---- MODULE Spec2Model ----
(***************************************************************************)
(* s3cat (src/main.go): parse PATTERN arguments, list the matching S3      *)
(* objects page by page, flag the objects already present locally with the *)
(* same size, download the others under a channel semaphore and an         *)
(* errgroup, then print every local file in listing order.                 *)
(*                                                                         *)
(* Strings are sequences of one-character strings, so that parseArg,       *)
(* path.Join / path.Clean, path.Dir and strings.HasSuffix are computed     *)
(* character by character as the Go code computes them.                    *)
(* Sizes are counted in transfer parts: the downloader writes an object    *)
(* part by part with WriteAt, and a local file is a sequence of cells, a   *)
(* cell holding the id of the object whose part was written there, or 0    *)
(* for a hole that was never written.                                      *)
(***************************************************************************)
EXTENDS Integers, Sequences, FiniteSets, TLC

(***************************************************************************)
(* Bounds of the model.                                                    *)
(***************************************************************************)
\* Largest value of the --concurrency option that is explored (0..MaxConc).
MaxConc == 2
\* Number of consecutive invocations of the program on the same local disk.
MaxRuns == 2
\* Entries per page of a listing answer.
PageSize == 1
\* Longest PATTERN argument that parseArg is given on its own.
MaxArgLen == 6

(***************************************************************************)
(* Strings and the path package.                                           *)
(***************************************************************************)
Last(s) == s[Len(s)]

Front(s) == SubSeq(s, 1, Len(s) - 1)

\* strings.HasPrefix
HasPrefix(s, p) == Len(s) >= Len(p) /\ SubSeq(s, 1, Len(p)) = p

\* strings.HasSuffix
HasSuffix(s, p) == Len(s) >= Len(p) /\ SubSeq(s, Len(s) - Len(p) + 1, Len(s)) = p

\* path.IsAbs
IsAbs(s) == Len(s) > 0 /\ s[1] = "/"

\* The elements of s between its separators ("a//b" has an empty element).
RECURSIVE Segments(_)
Segments(s) ==
    IF s = <<>> THEN << <<>> >>
    ELSE LET r == Segments(Tail(s)) IN
         IF Head(s) = "/" THEN << <<>> >> \o r
         ELSE << <<Head(s)>> \o Head(r) >> \o Tail(r)

\* path.Clean's pass over the elements: drop "" and ".", resolve "..".
RECURSIVE CleanSegs(_, _, _)
CleanSegs(segs, stack, rooted) ==
    IF segs = <<>> THEN stack
    ELSE LET e == Head(segs) IN
         IF e = <<>> \/ e = <<".">> THEN CleanSegs(Tail(segs), stack, rooted)
         ELSE IF e = <<".", ".">> THEN
              IF stack # <<>> /\ Last(stack) # <<".", ".">>
              THEN CleanSegs(Tail(segs), Front(stack), rooted)
              ELSE IF rooted THEN CleanSegs(Tail(segs), stack, rooted)
              ELSE CleanSegs(Tail(segs), Append(stack, e), rooted)
         ELSE CleanSegs(Tail(segs), Append(stack, e), rooted)

RECURSIVE JoinSegs(_)
JoinSegs(segs) ==
    IF segs = <<>> THEN <<>>
    ELSE IF Len(segs) = 1 THEN Head(segs)
    ELSE Head(segs) \o <<"/">> \o JoinSegs(Tail(segs))

\* path.Clean
Clean(s) ==
    IF s = <<>> THEN <<".">>
    ELSE LET rooted == s[1] = "/"
             body == JoinSegs(CleanSegs(Segments(s), <<>>, rooted))
         IN  IF rooted THEN <<"/">> \o body
             ELSE IF body = <<>> THEN <<".">> ELSE body

\* path.Join: the non-empty elements joined by "/", then cleaned.
RECURSIVE JoinRaw(_)
JoinRaw(elems) ==
    IF elems = <<>> THEN <<>>
    ELSE LET rest == JoinRaw(Tail(elems)) IN
         IF Head(elems) = <<>> THEN rest
         ELSE IF rest = <<>> THEN Head(elems)
         ELSE Head(elems) \o <<"/">> \o rest

Join(elems) == IF JoinRaw(elems) = <<>> THEN <<>> ELSE Clean(JoinRaw(elems))

\* path.Split's directory part: everything up to and including the last "/".
RECURSIVE UpToLastSlash(_)
UpToLastSlash(s) ==
    IF s = <<>> THEN <<>>
    ELSE IF Last(s) = "/" THEN s
    ELSE UpToLastSlash(Front(s))

\* path.Dir
Dir(s) == Clean(UpToLastSlash(s))

(***************************************************************************)
(* parseArg.                                                               *)
(***************************************************************************)
\* The loop of parseArg over arg[1:]: bytes go to the bucket until the first
\* "/", which is dropped, and to the prefix after it.
\* A loop that also drops the separators inside the prefix.
RECURSIVE ParseBytesDropAll(_, _, _, _)
ParseBytesDropAll(rest, bb, pb, isBucket) ==
    IF rest = <<>> THEN [bucket |-> bb, prefix |-> pb]
    ELSE IF Head(rest) = "/" THEN ParseBytesDropAll(Tail(rest), bb, pb, FALSE)
    ELSE IF isBucket THEN ParseBytesDropAll(Tail(rest), Append(bb, Head(rest)), pb, TRUE)
    ELSE ParseBytesDropAll(Tail(rest), bb, Append(pb, Head(rest)), FALSE)

RECURSIVE ParseBytes(_, _, _, _)
ParseBytes(rest, bb, pb, isBucket) ==
    IF rest = <<>> THEN [bucket |-> bb, prefix |-> pb]
    ELSE IF isBucket
         THEN IF Head(rest) = "/"
              THEN ParseBytes(Tail(rest), bb, pb, FALSE)
              ELSE ParseBytes(Tail(rest), Append(bb, Head(rest)), pb, TRUE)
         ELSE ParseBytes(Tail(rest), bb, Append(pb, Head(rest)), FALSE)

parseArg(arg) ==
    IF ~IsAbs(arg) THEN [err |-> TRUE, bucket |-> <<>>, prefix |-> <<>>]
    ELSE LET r == ParseBytes(Tail(arg), <<>>, <<>>, TRUE)
         IN  [err |-> FALSE, bucket |-> r.bucket, prefix |-> r.prefix]

\* A parser that leaves out the arguments parseArg rejects.
RECURSIVE parseArgsSkipping(_)
parseArgsSkipping(as) ==
    IF as = <<>> THEN [err |-> FALSE, inputs |-> <<>>]
    ELSE LET p == parseArg(Head(as))
             r == parseArgsSkipping(Tail(as))
         IN  IF p.err THEN r
             ELSE [err |-> FALSE,
                   inputs |-> <<[bucket |-> p.bucket, prefix |-> p.prefix]>> \o r.inputs]

\* parseArgs: the inputs of all arguments, or the first error.
RECURSIVE parseArgs(_)
parseArgs(as) ==
    IF as = <<>> THEN [err |-> FALSE, inputs |-> <<>>]
    ELSE LET p == parseArg(Head(as)) IN
         IF p.err THEN [err |-> TRUE, inputs |-> <<>>]
         ELSE LET r == parseArgs(Tail(as)) IN
              IF r.err THEN r
              ELSE [err |-> FALSE,
                    inputs |-> <<[bucket |-> p.bucket, prefix |-> p.prefix]>> \o r.inputs]

(***************************************************************************)
(* The remote service and the command line.                                *)
(***************************************************************************)
\* The objects of the one bucket that exists, in the service's listing
\* (lexicographic) order.  size is the object's Size in parts; id names
\* its content.  "a" and "a/" differ as keys, "d/" is a folder marker.
BucketName == <<"b">>

Bucket ==
    << [id |-> 1, key |-> <<"a">>, size |-> 1],
       [id |-> 2, key |-> <<"a", "/">>, size |-> 0],
       [id |-> 3, key |-> <<"d", "/">>, size |-> 0],
       [id |-> 4, key |-> <<"d", "/", "x">>, size |-> 1],
       [id |-> 5, key |-> <<"l">>, size |-> 1],
       [id |-> 6, key |-> <<"z", ".", "g", "z">>, size |-> 3] >>

\* Whether the remote content with this id is a gzip stream.
IsGzipContent(id) == id = 6

\* Whether the remote content with this id is a single line longer than
\* bufio.MaxScanTokenSize, the longest token a bufio.Scanner delivers.
TooLong(id) == id = 5

\* The argument lists the program is started with.
ArgLists ==
    { << <<"/", "b", "/", "a">> >>,
      << <<"/", "b", "/", "d">> >>,
      << <<"/", "b", "/", "z">> >>,
      << <<"/", "b", "/", "z">>, <<"/", "b", "/", "d", "/", "x">> >>,
      << <<"/", "b", "/", "a">>, <<"/", "b", "/", "d", "/", "x">> >>,
      << <<"/", "b", "/", "d", "/", "x">>, <<"/", "b", "/", "d", "/", "x">> >>,
      << <<"/", "b", "/", "l">> >>,
      << <<"/", "b", "/", "q">> >>,
      << <<"/", "c">> >>,
      << <<"/", "b", "/", "z">>, <<"b">> >>,
      << <<"b">>, <<"/", "b", "/", "z">> >>,
      << <<>> >> }

\* opts.Temp
TempRoot == <<"/", "t">>

\* Size() that os.Stat may report for a directory: system-dependent (an
\* empty directory reports 0 on some file systems, a block on others).
DirSizes == {0, 4}

\* The entries of the bucket whose key starts with the prefix.
Matching(input) ==
    IF input.bucket = BucketName
    THEN SelectSeq(Bucket, LAMBDA o : HasPrefix(o.key, input.prefix))
    ELSE <<>>

Min(a, b) == IF a <= b THEN a ELSE b

\* ListObjectsV2 for a cursor (0 is the nil token): one page of at most
\* PageSize entries and the cursor of the next page, 0 when there is none.
ListObjectsV2(input, token) ==
    LET all == Matching(input)
        hi == Min(token + PageSize, Len(all))
    IN  [Contents |-> SubSeq(all, token + 1, hi),
         NextContinuationToken |-> IF hi < Len(all) THEN hi ELSE 0]

\* objectWrapper
Wrap(bucket, raw) ==
    [bucket |-> bucket, key |-> raw.key, size |-> raw.size, id |-> raw.id,
     local |-> FALSE]

WrapAll(bucket, contents) == [k \in 1..Len(contents) |-> Wrap(bucket, contents[k])]

\* objectWrapper.LocalPath
LocalPath(o) == Join(<<TempRoot, o.bucket, o.key>>)

(***************************************************************************)
(* The local file system: a function from the paths that exist to          *)
(* [dir |-> TRUE] or [dir |-> FALSE, data |-> cells].  "/" always exists.  *)
(***************************************************************************)
Root == <<"/">>

DirNode == [dir |-> TRUE, data |-> <<>>]

FileNode(cells) == [dir |-> FALSE, data |-> cells]

\* os.Stat: err is "" (found), "ENOENT" or "ENOTDIR" (a file on the way).
RECURSIVE Stat(_, _, _)
Stat(f, p, ds) ==
    IF p = Root THEN [err |-> "", isDir |-> TRUE, size |-> ds]
    ELSE IF p \in DOMAIN f
         THEN [err |-> "", isDir |-> f[p].dir,
               size |-> IF f[p].dir THEN ds ELSE Len(f[p].data)]
    ELSE LET up == Stat(f, Dir(p), ds) IN
         IF up.err # "" THEN up
         ELSE IF up.isDir THEN [err |-> "ENOENT", isDir |-> FALSE, size |-> 0]
         ELSE [err |-> "ENOTDIR", isDir |-> FALSE, size |-> 0]

Put(f, p, node) == [q \in DOMAIN f \cup {p} |-> IF q = p THEN node ELSE f[q]]

\* os.MkdirAll
RECURSIVE MkdirAll(_, _)
MkdirAll(f, p) ==
    LET st == Stat(f, p, 0) IN
    IF st.err = "" THEN [err |-> ~st.isDir, fs |-> f]
    ELSE IF st.err = "ENOTDIR" THEN [err |-> TRUE, fs |-> f]
    ELSE LET up == MkdirAll(f, Dir(p)) IN
         IF up.err THEN up ELSE [err |-> FALSE, fs |-> Put(up.fs, p, DirNode)]

\* os.Create: O_CREATE|O_TRUNC.
Create(f, p) ==
    LET st == Stat(f, p, 0)
        up == Stat(f, Dir(p), 0)
    IN  IF st.err = "" /\ st.isDir THEN [err |-> TRUE, fs |-> f]
        ELSE IF up.err # "" \/ ~up.isDir THEN [err |-> TRUE, fs |-> f]
        ELSE [err |-> FALSE, fs |-> Put(f, p, FileNode(<<>>))]

\* File.WriteAt of one part: the file grows to the part's end, the cells it
\* skips stay holes.
WriteAt(cells, k, id) ==
    [j \in 1..(IF k > Len(cells) THEN k ELSE Len(cells)) |->
        IF j = k THEN id ELSE IF j <= Len(cells) THEN cells[j] ELSE 0]

(***************************************************************************)
(* State.                                                                  *)
(***************************************************************************)
VARIABLES
    args,       \* the PATTERN arguments, the same in every run
    conc,       \* opts.Concurrency
    fs,         \* the local disk, which survives the runs
    run,        \* number of the current invocation
    pc,         \* where main is
    status,     \* exit status, once pc = "exited"
    inputs,     \* the parsed patterns
    li,         \* index of the pattern being listed
    token,      \* continuation token of the next listing request
    requests,   \* history: the listing requests sent in this run
    objects,    \* the listed objectWrappers, in listing order
    next,       \* index of the download loop
    dsem,       \* number of elements in the channel dsem
    tpc,        \* where the download task of each object is
    terr,       \* what the task returns: "" or its error
    got,        \* the parts the task's downloader has written
    egErr,      \* the errgroup's first error: <<>> or <<kind, task>>
    cancelled,  \* childCtx was cancelled by the errgroup
    expired,    \* the deadline of opts.Timeout has passed
    oi,         \* index of the output loop
    stdout,     \* the lines written to standard output, each with the
                \* position of the object it was read for
    errs,       \* the error lines written to standard error by logFatal
    fails,      \* history: the task failures of this run, in the order in
                \* which the errgroup or logFatal came to see them
    order,      \* history: the tasks whose download completed, in order
    hit,        \* history: the deadline passed while a call that takes the
                \* context was outstanding and the context was not yet done
    prev        \* history: how the previous run ended, and the disk it
                \* left, on which this run started

vars ==
    <<args, conc, fs, run, pc, status, inputs, li, token, requests,
      objects, next, dsem, tpc, terr, got, egErr, cancelled, expired, oi,
      stdout, errs, fails, order, hit, prev>>

config == <<args, conc>>

listing == <<inputs, li, token, requests, objects>>

tasks == <<tpc, terr, got, egErr, cancelled>>

history == <<fails, order, hit>>

output == <<oi, stdout>>

N == Len(objects)

Objs == 1..N

NoRun == [ran |-> FALSE, status |-> 0, stdout |-> <<>>, fs |-> <<>>]

Started == {i \in DOMAIN tpc : tpc[i] # "none"}

\* The tasks that hold a slot: started, and their deferred <-dsem not yet run.
InFlight == {i \in DOMAIN tpc : tpc[i] \in {"stat", "mkdir", "create", "xfer", "close", "fatal"}}

Parts(i) == 1..objects[i].size

CtxDone == cancelled \/ expired

InitWith(argLists, concs) ==
    /\ args \in argLists
    /\ conc \in concs
    /\ fs = <<>>
    /\ run = 1
    /\ pc = "parse"
    /\ status = 0
    /\ inputs = <<>>
    /\ li = 1
    /\ token = 0
    /\ requests = 0
    /\ objects = <<>>
    /\ next = 1
    /\ dsem = 0
    /\ tpc = <<>>
    /\ terr = <<>>
    /\ got = <<>>
    /\ egErr = <<>>
    /\ cancelled = FALSE
    /\ expired = FALSE
    /\ oi = 1
    /\ stdout = <<>>
    /\ errs = <<>>
    /\ fails = <<>>
    /\ order = <<>>
    /\ hit = FALSE
    /\ prev = NoRun

Init == InitWith(ArgLists, 0..MaxConc)

(***************************************************************************)
(* main, up to the download loop.                                          *)
(***************************************************************************)
\* logFatal called by main: no other goroutine is running then.
MainFatal(kind, who) ==
    /\ errs' = Append(errs, <<kind, who>>)
    /\ pc' = "exited"
    /\ status' = 1

ParseArgs ==
    /\ pc = "parse"
    /\ LET r == parseArgs(args) IN
       IF r.err
       THEN /\ MainFatal("parse", 0)
            /\ UNCHANGED inputs
       ELSE /\ inputs' = r.inputs
            /\ pc' = "list"
            /\ UNCHANGED <<status, errs>>
    /\ UNCHANGED <<config, fs, run, li, token, requests, objects, next, dsem,
                   tasks, expired, output, history, prev>>

\* A lister that takes the first page for the whole listing.
FirstPageOnly(out) == [li |-> li + 1, token |-> 0]

\* What listS3Object does with one answer: the page is appended, and the
\* returned token, when there is one, goes into the next request.
NextRequest(out) ==
    IF out.NextContinuationToken # 0
    THEN [li |-> li, token |-> out.NextContinuationToken]
    ELSE [li |-> li + 1, token |-> 0]

Accumulate(results, bucket, out) == results \o WrapAll(bucket, out.Contents)

ListPage ==
    /\ pc = "list"
    /\ ~expired
    /\ inputs[li].bucket = BucketName
    /\ LET out == ListObjectsV2(inputs[li], token)
           nx == NextRequest(out)
       IN  /\ objects' = Accumulate(objects, inputs[li].bucket, out)
           /\ li' = nx.li
           /\ token' = nx.token
           /\ requests' = requests + 1
           /\ pc' = IF nx.li > Len(inputs) THEN "check" ELSE "list"
    /\ UNCHANGED <<config, fs, run, status, inputs, next, dsem, tasks, expired,
                   output, errs, history, prev>>

\* ListObjectsV2WithContext returns an error: the context is done, the
\* bucket does not exist, or the request fails.
ListFail ==
    /\ pc = "list"
    /\ MainFatal("list", 0)
    /\ UNCHANGED <<config, fs, run, listing, next, dsem, tasks, expired, output,
                   history, prev>>

\* A check that compares the sizes without looking at the error.
IsLocalSizeOnly(st, size) == st.size = size

\* object.local of one object, from what os.Stat answers.
IsLocal(st, size) == st.err = "" /\ st.size = size

CheckLocal ==
    /\ pc = "check"
    /\ \E ds \in DirSizes :
          objects' = [i \in Objs |->
              [objects[i] EXCEPT !.local =
                  IsLocal(Stat(fs, LocalPath(objects[i]), ds), objects[i].size)]]
    /\ tpc' = [i \in Objs |-> "none"]
    /\ terr' = [i \in Objs |-> ""]
    /\ got' = [i \in Objs |-> {}]
    /\ next' = 1
    /\ pc' = "sched"
    /\ UNCHANGED <<config, fs, run, status, inputs, li, token, requests, dsem,
                   egErr, cancelled, expired, output, errs, history, prev>>

(***************************************************************************)
(* The download loop of main and the tasks it starts.                      *)
(***************************************************************************)
\* A send that also goes through when the buffer is full.
CanSendWhenFull(n, capacity) == n <= capacity

\* dsem <- struct{}{} goes through when the channel's buffer has room.
CanSend(n, capacity) == n < capacity

\* for _, object := range objects { if object.local { continue } ...
SkipLocal ==
    /\ pc = "sched"
    /\ next <= N
    /\ objects[next].local
    /\ next' = next + 1
    /\ UNCHANGED <<config, fs, run, pc, status, listing, dsem, tasks, expired,
                   output, errs, history, prev>>

\* dsem <- struct{}{}
Acquire ==
    /\ pc = "sched"
    /\ next <= N
    /\ ~objects[next].local
    /\ CanSend(dsem, conc)
    /\ dsem' = dsem + 1
    /\ pc' = "go"
    /\ UNCHANGED <<config, fs, run, status, listing, next, tasks, expired,
                   output, errs, history, prev>>

\* deg.Go(...): the task's goroutine exists from here on.
Go ==
    /\ pc = "go"
    /\ tpc' = [tpc EXCEPT ![next] = "stat"]
    /\ next' = next + 1
    /\ pc' = "sched"
    /\ UNCHANGED <<config, fs, run, status, listing, dsem, terr, got, egErr,
                   cancelled, expired, output, errs, history, prev>>

LoopEnd ==
    /\ pc = "sched"
    /\ next > N
    /\ pc' = "wait"
    /\ UNCHANGED <<config, fs, run, status, listing, next, dsem, tasks, expired,
                   output, errs, history, prev>>

Alive == pc \in {"sched", "go", "wait"}

\* logFatal called by a task, first half: the line is printed.
TaskFatal(i, kind) ==
    /\ errs' = Append(errs, <<kind, i>>)
    /\ fails' = Append(fails, <<kind, i>>)
    /\ tpc' = [tpc EXCEPT ![i] = "fatal"]

\* if fi, err := os.Stat(dir); ...
TaskStat(i) ==
    /\ Alive
    /\ tpc[i] = "stat"
    /\ LET st == Stat(fs, Dir(LocalPath(objects[i])), 0) IN
       IF st.err = "ENOENT"
       THEN /\ tpc' = [tpc EXCEPT ![i] = "mkdir"]
            /\ UNCHANGED <<errs, fails>>
       ELSE IF st.err # "" THEN TaskFatal(i, "stat")
       ELSE IF ~st.isDir THEN TaskFatal(i, "notdir")
       ELSE /\ tpc' = [tpc EXCEPT ![i] = "create"]
            /\ UNCHANGED <<errs, fails>>
    /\ UNCHANGED <<config, fs, run, pc, status, listing, next, dsem, terr, got,
                   egErr, cancelled, expired, output, order, hit, prev>>

\* os.MkdirAll(dir, 0755)
TaskMkdir(i) ==
    /\ Alive
    /\ tpc[i] = "mkdir"
    /\ LET r == MkdirAll(fs, Dir(LocalPath(objects[i]))) IN
       IF r.err
       THEN /\ TaskFatal(i, "mkdir")
            /\ UNCHANGED fs
       ELSE /\ fs' = r.fs
            /\ tpc' = [tpc EXCEPT ![i] = "create"]
            /\ UNCHANGED <<errs, fails>>
    /\ UNCHANGED <<config, run, pc, status, listing, next, dsem, terr, got,
                   egErr, cancelled, expired, output, order, hit, prev>>

\* os.Create(fp); on an error the task returns it, and its deferred
\* function takes the task's element out of dsem.
TaskCreate(i) ==
    /\ Alive
    /\ tpc[i] = "create"
    /\ LET r == Create(fs, LocalPath(objects[i])) IN
       IF r.err
       THEN /\ terr' = [terr EXCEPT ![i] = "create"]
            /\ tpc' = [tpc EXCEPT ![i] = "ret"]
            /\ dsem' = dsem - 1
            /\ UNCHANGED fs
       ELSE /\ fs' = r.fs
            /\ tpc' = [tpc EXCEPT ![i] = "xfer"]
            /\ UNCHANGED <<terr, dsem>>
    /\ UNCHANGED <<config, run, pc, status, listing, next, got, egErr,
                   cancelled, expired, output, errs, history, prev>>

\* The parts the downloader may write next: the first part comes first, the
\* others are fetched concurrently and written with WriteAt as they arrive.
Writable(i) == {k \in Parts(i) \ got[i] : k = 1 \/ 1 \in got[i]}

\* s3m.DownloadWithContext, one part written to the file.
TaskWrite(i, k) ==
    /\ Alive
    /\ tpc[i] = "xfer"
    /\ ~CtxDone
    /\ k \in Writable(i)
    /\ LET fp == LocalPath(objects[i]) IN
       fs' = [fs EXCEPT ![fp] = FileNode(WriteAt(fs[fp].data, k, objects[i].id))]
    /\ got' = [got EXCEPT ![i] = got[i] \cup {k}]
    /\ UNCHANGED <<config, run, pc, status, listing, next, dsem, tpc, terr,
                   egErr, cancelled, expired, output, errs, history, prev>>

\* s3m.DownloadWithContext returns nil: every part was written.
TaskDownloaded(i) ==
    /\ Alive
    /\ tpc[i] = "xfer"
    /\ got[i] = Parts(i)
    /\ Parts(i) = {} => ~CtxDone
    /\ tpc' = [tpc EXCEPT ![i] = "close"]
    /\ order' = Append(order, i)
    /\ UNCHANGED <<config, fs, run, pc, status, listing, next, dsem, terr, got,
                   egErr, cancelled, expired, output, errs, fails, hit, prev>>

\* s3m.DownloadWithContext returns an error: a request failed, or the
\* context is done.
TaskDownloadFail(i) ==
    /\ Alive
    /\ tpc[i] = "xfer"
    /\ got[i] # Parts(i) \/ Parts(i) = {}
    /\ terr' = [terr EXCEPT ![i] = "download"]
    /\ tpc' = [tpc EXCEPT ![i] = "close"]
    /\ UNCHANGED <<config, fs, run, pc, status, listing, next, dsem, got,
                   egErr, cancelled, expired, output, errs, history, prev>>

\* A task end that leaves the task's element in dsem.
TaskCloseKeepsSlot(i) ==
    /\ Alive
    /\ tpc[i] = "close"
    /\ tpc' = [tpc EXCEPT ![i] = "ret"]
    /\ UNCHANGED <<config, fs, run, pc, status, listing, next, dsem, terr, got,
                   egErr, cancelled, expired, output, errs, history, prev>>

\* The deferred f.Close() and then the deferred <-dsem.
TaskClose(i) ==
    /\ Alive
    /\ tpc[i] = "close"
    /\ tpc' = [tpc EXCEPT ![i] = "ret"]
    /\ dsem' = dsem - 1
    /\ UNCHANGED <<config, fs, run, pc, status, listing, next, terr, got,
                   egErr, cancelled, expired, output, errs, history, prev>>

\* The deferred f.Close() fails.
TaskCloseFail(i) ==
    /\ Alive
    /\ tpc[i] = "close"
    /\ TaskFatal(i, "close")
    /\ UNCHANGED <<config, fs, run, pc, status, listing, next, dsem, terr, got,
                   egErr, cancelled, expired, output, order, hit, prev>>

\* errgroup: the task function has returned; its first non-nil error is
\* kept and cancels childCtx; then wg.Done().
TaskReturn(i) ==
    /\ Alive
    /\ tpc[i] = "ret"
    /\ tpc' = [tpc EXCEPT ![i] = "done"]
    /\ IF terr[i] # "" /\ egErr = <<>>
       THEN /\ egErr' = <<terr[i], i>>
            /\ cancelled' = TRUE
       ELSE UNCHANGED <<egErr, cancelled>>
    /\ fails' = IF terr[i] # "" THEN Append(fails, <<terr[i], i>>) ELSE fails
    /\ UNCHANGED <<config, fs, run, pc, status, listing, next, dsem, terr, got,
                   expired, output, errs, order, hit, prev>>

\* logFatal called by a task, second half: os.Exit(1).
TaskExit(i) ==
    /\ Alive
    /\ tpc[i] = "fatal"
    /\ pc' = "exited"
    /\ status' = 1
    /\ UNCHANGED <<config, fs, run, listing, next, dsem, tasks, expired,
                   output, errs, history, prev>>

\* The calls that take the context are ListObjectsV2WithContext and
\* DownloadWithContext: whether one is still to come or outstanding.
UsesContext ==
    \/ pc = "list"
    \/ /\ pc \in {"sched", "go", "wait"}
       /\ \/ \E i \in DOMAIN tpc : tpc[i] \in {"stat", "mkdir", "create", "xfer"}
          \/ \E i \in DOMAIN tpc : i >= next /\ ~objects[i].local

\* A call that takes the context is waiting for its answer: main is in
\* ListObjectsV2WithContext, or a task's downloader has a request out.
Outstanding ==
    \/ pc = "list"
    \/ /\ pc \in {"sched", "go", "wait"}
       /\ \E i \in DOMAIN tpc :
             tpc[i] = "xfer" /\ (got[i] # Parts(i) \/ Parts(i) = {})

\* The deadline of context.WithTimeout passes (opts.Timeout > 0).  Once no
\* call reads the context any more, its expiry changes nothing.
Expire ==
    /\ UsesContext
    /\ ~expired
    /\ expired' = TRUE
    /\ hit' = (Outstanding /\ ~cancelled)
    /\ UNCHANGED <<config, fs, run, pc, status, listing, next, dsem, tasks,
                   output, errs, fails, order, prev>>

\* A wait that returns at once.
WaitReturnsAtOnce == TRUE

\* deg.Wait() returns once every started task has returned.
WaitReturns == \A i \in Objs : tpc[i] \in {"none", "done"}

Wait ==
    /\ pc = "wait"
    /\ WaitReturns
    /\ IF egErr # <<>>
       THEN /\ MainFatal(egErr[1], egErr[2])
            /\ UNCHANGED oi
       ELSE /\ pc' = "output"
            /\ oi' = 1
            /\ UNCHANGED <<status, errs>>
    /\ UNCHANGED <<config, fs, run, listing, next, dsem, tasks, expired,
                   stdout, history, prev>>

(***************************************************************************)
(* The output loop.                                                        *)
(***************************************************************************)
\* How many leading cells belong to the gzip stream that starts the file:
\* the reader stops at the first cell that does not continue it.
RECURSIVE StreamLen(_, _, _)
StreamLen(cells, id, k) ==
    IF k > Len(cells) \/ k > Bucket[id].size \/ cells[k] # id THEN k - 1
    ELSE StreamLen(cells, id, k + 1)

\* gzip.NewReader reads the header: it fails on anything but a gzip stream.
GzipHeaderOK(cells) == cells # <<>> /\ cells[1] # 0 /\ IsGzipContent(cells[1])

\* How many of the first n cells scanner.Scan() delivers: it returns false
\* at the first token that is too long.
RECURSIVE ScanLen(_, _, _)
ScanLen(cells, n, k) ==
    IF k > n \/ (cells[k] # 0 /\ TooLong(cells[k])) THEN k - 1
    ELSE ScanLen(cells, n, k + 1)

\* The lines the loop over scanner.Scan() prints from the file, one per
\* cell; a read error or a token that is too long ends the loop, and
\* scanner.Err() is not looked at.
Lines(pos, cells, gz) ==
    LET n == IF gz THEN StreamLen(cells, cells[1], 1) ELSE Len(cells) IN
    [k \in 1..ScanLen(cells, n, 1) |->
        [pos |-> pos, id |-> cells[k], part |-> k, gunzip |-> gz]]

\* An output loop that follows the order in which the downloads completed,
\* and then the objects that were not downloaded.
OutputByCompletion(k) ==
    (order \o SelectSeq([i \in Objs |-> i],
                        LAMBDA i : \A j \in DOMAIN order : order[j] # i))[k]

\* The object the output loop prints at its step k.
OutputOrder(k) == k

Output ==
    /\ pc = "output"
    /\ oi <= N
    /\ LET pos == OutputOrder(oi)
           fp == LocalPath(objects[pos])
           st == Stat(fs, fp, 0)
           gz == HasSuffix(fp, <<".", "g", "z">>)
           cells == IF st.err = "" /\ ~st.isDir THEN fs[fp].data ELSE <<>>
       IN  IF st.err # ""
           THEN /\ MainFatal("open", pos)
                /\ UNCHANGED output
           ELSE IF gz /\ ~GzipHeaderOK(cells)
           THEN /\ MainFatal("gzip", pos)
                /\ UNCHANGED output
           ELSE /\ stdout' = stdout \o Lines(pos, cells, gz)
                /\ oi' = oi + 1
                /\ UNCHANGED <<pc, status, errs>>
    /\ UNCHANGED <<config, fs, run, listing, next, dsem, tasks, expired, history,
                   prev>>

\* main returns.
Finish ==
    /\ pc = "output"
    /\ oi > N
    /\ pc' = "exited"
    /\ status' = 0
    /\ UNCHANGED <<config, fs, run, listing, next, dsem, tasks, expired,
                   output, errs, history, prev>>

\* The program is started again, with the same arguments, on the disk the
\* run before left.
NewRun ==
    /\ pc = "exited"
    /\ run < MaxRuns
    /\ run' = run + 1
    /\ prev' = [ran |-> TRUE, status |-> status, stdout |-> stdout, fs |-> fs]
    /\ pc' = "parse"
    /\ status' = 0
    /\ inputs' = <<>>
    /\ li' = 1
    /\ token' = 0
    /\ requests' = 0
    /\ objects' = <<>>
    /\ next' = 1
    /\ dsem' = 0
    /\ tpc' = <<>>
    /\ terr' = <<>>
    /\ got' = <<>>
    /\ egErr' = <<>>
    /\ cancelled' = FALSE
    /\ expired' = FALSE
    /\ oi' = 1
    /\ stdout' = <<>>
    /\ errs' = <<>>
    /\ fails' = <<>>
    /\ order' = <<>>
    /\ hit' = FALSE
    /\ UNCHANGED <<config, fs>>

Next ==
    \/ ParseArgs
    \/ ListPage
    \/ ListFail
    \/ CheckLocal
    \/ SkipLocal
    \/ Acquire
    \/ Go
    \/ LoopEnd
    \/ \E i \in DOMAIN tpc : TaskStat(i)
    \/ \E i \in DOMAIN tpc : TaskMkdir(i)
    \/ \E i \in DOMAIN tpc : TaskCreate(i)
    \/ \E i \in DOMAIN tpc : \E k \in Parts(i) : TaskWrite(i, k)
    \/ \E i \in DOMAIN tpc : TaskDownloaded(i)
    \/ \E i \in DOMAIN tpc : TaskDownloadFail(i)
    \/ \E i \in DOMAIN tpc : TaskClose(i)
    \/ \E i \in DOMAIN tpc : TaskCloseFail(i)
    \/ \E i \in DOMAIN tpc : TaskReturn(i)
    \/ \E i \in DOMAIN tpc : TaskExit(i)
    \/ Expire
    \/ Wait
    \/ Output
    \/ Finish
    \/ NewRun

Spec == Init /\ [][Next]_vars

(***************************************************************************)
(* The listing phase alone, for more patterns than the runs above take.    *)
(***************************************************************************)
ListPatterns ==
    { <<"/", "b">>,
      <<"/", "b", "/">>,
      <<"/", "b", "/", "a">>,
      <<"/", "b", "/", "d", "/">>,
      <<"/", "b", "/", "z">>,
      <<"/", "b", "/", "q">>,
      <<"/", "c">> }

ListArgLists ==
    {<<p>> : p \in ListPatterns} \cup {<<p, q>> : p \in ListPatterns, q \in ListPatterns}

InitList == InitWith(ListArgLists, {1})

NextList ==
    \/ ParseArgs
    \/ ListPage
    \/ ListFail
    \/ Expire

SpecList == InitList /\ [][NextList]_vars

(***************************************************************************)
(* parseArgs alone, on every argument of up to MaxArgLen characters.       *)
(***************************************************************************)
Alphabet == {"/", "b", "p", "q"}

RECURSIVE Strings(_)
Strings(n) ==
    IF n = 0 THEN {<<>>}
    ELSE Strings(n - 1) \cup {Append(s, c) : s \in Strings(n - 1), c \in Alphabet}

InitParse == InitWith({<<s>> : s \in Strings(MaxArgLen)}, {1})

NextParse == ParseArgs

SpecParse == InitParse /\ [][NextParse]_vars

(***************************************************************************)
(* Properties.                                                             *)
(***************************************************************************)
\* C1: with concurrency N >= 1, the download tasks that were started and
\* have not finished are never more than N.
C1_AtMostNInFlight == conc >= 1 => Cardinality(InFlight) <= conc

\* C1 witness: N tasks are in flight and main is blocked at the gate with a
\* further object to download.
C1_GateFull ==
    /\ conc = MaxConc
    /\ Cardinality(InFlight) = conc
    /\ pc = "sched"
    /\ next <= N
    /\ ~objects[next].local

\* C2: a failed task makes the run end with an error, and once the errgroup
\* has cancelled childCtx no new download task is started.
\* (Stated for the loop: an iteration that begins after the cancellation
\* admits no object, so that no task is started for it.)
C2_NoStartAfterCancel ==
    /\ [][cancelled /\ pc = "sched" => pc' # "go"]_vars
    /\ [](pc = "exited" /\ fails # <<>> => status = 1)

\* C3: the error a failing download phase reports is the task failure that
\* was seen first: the error line of the run is that failure's.
C3_FirstFailureReported ==
    pc = "exited" /\ fails # <<>> => errs # <<>> /\ errs[1] = fails[1]

\* C4: on standard output the lines of the object at position i all come
\* before the lines of the object at position i + 1.
C4_ListingOrder ==
    \A j, k \in DOMAIN stdout : j < k => stdout[j].pos <= stdout[k].pos

\* C4 witness: two objects were printed in listing order although the
\* second one's download completed first.
C4_PrintedAgainstCompletion ==
    /\ Len(order) >= 2
    /\ order[1] > order[2]
    /\ \E j, k \in DOMAIN stdout :
          j < k /\ stdout[j].pos = order[2] /\ stdout[k].pos = order[1]

\* C5: output happens only when every object that was not cached has been
\* downloaded by a task that finished without an error.
C5_OutputAfterDownloads ==
    (pc = "output" \/ stdout # <<>>) =>
        \A i \in Objs :
            \/ objects[i].local /\ tpc[i] = "none"
            \/ ~objects[i].local /\ tpc[i] = "done" /\ terr[i] = ""

\* C5 witness: lines were written in a run that downloaded something.
C5_OutputOfDownloaded == stdout # <<>> /\ Started # {}

\* The whole listing of the patterns: every matching entry, pattern after
\* pattern, in the service's order.
RECURSIVE WholeListing(_)
WholeListing(ins) ==
    IF ins = <<>> THEN <<>>
    ELSE WrapAll(Head(ins).bucket, Matching(Head(ins))) \o WholeListing(Tail(ins))

\* The requests a listing of n entries takes: one per page, one when empty.
PagesOf(n) == IF n = 0 THEN 1 ELSE (n + PageSize - 1) \div PageSize

RECURSIVE RequestsFor(_)
RequestsFor(ins) ==
    IF ins = <<>> THEN 0
    ELSE PagesOf(Len(Matching(Head(ins)))) + RequestsFor(Tail(ins))

\* C6: a listing that spans several pages follows the cursors to the page
\* without one, stops there, and returns the pages' concatenation.
C6_AllPagesInOrder ==
    pc = "check" => objects = WholeListing(inputs) /\ requests = RequestsFor(inputs)

\* C6 witness: one pattern was listed in three requests or more.
C6_ThreePages == pc = "check" /\ Len(inputs) = 1 /\ requests >= 3

\* The cells of a complete local copy of an object.
Complete(o) == [k \in 1..o.size |-> o.id]

\* C7: the run after a successful run starts no download and prints what
\* that run printed.
C7_SecondRunAllCached ==
    prev.ran /\ prev.status = 0 =>
        /\ Started = {}
        /\ pc = "exited" /\ status = 0 => stdout = prev.stdout

\* C8: after an aborted run, a local file that the size comparison takes for
\* cached is not an incomplete one.
C8_PartialNeverCached ==
    prev.ran /\ prev.status = 1 /\ pc \in {"sched", "go", "wait", "output"} =>
        \A i \in Objs :
            LET p == LocalPath(objects[i]) IN
            objects[i].local /\ p \in DOMAIN fs /\ ~fs[p].dir /\ tpc[i] = "none"
                /\ Started = {}
            => fs[p].data = Complete(objects[i])

\* C9: an object flagged as cached gets no task, and during the download
\* phase nothing creates, truncates or writes the file at its local path.
CachedUntouchedStep ==
    pc \in {"sched", "go", "wait"} =>
        \A i \in Objs :
            objects[i].local =>
                /\ tpc'[i] = "none"
                /\ LET p == LocalPath(objects[i]) IN
                   p \in DOMAIN fs => fs'[p] = fs[p]

C9_CachedUntouched == [][CachedUntouchedStep]_vars

\* What the flag of o must be on disk f: for a regular file, whether its
\* length is the listed size; FALSE when nothing is found at the path.  A
\* directory has the size os.Stat reports for it.
FlagAgrees(f, o, flag) ==
    LET p == LocalPath(o) IN
    IF p \notin DOMAIN f THEN ~flag
    ELSE IF f[p].dir THEN flag => o.size \in DirSizes
    ELSE flag <=> Len(f[p].data) = o.size

\* C10: the cache check flags exactly the objects whose local path holds an
\* entry of the listed size, and it never ends the run or reports an error.
CheckStep ==
    pc = "check" =>
        /\ pc' = "sched"
        /\ errs' = errs
        /\ DOMAIN objects' = DOMAIN objects
        /\ \A i \in Objs : FlagAgrees(fs, objects[i], objects'[i].local)

C10_FlagIffSameSize == [][CheckStep]_vars

\* C10 witness: the check has flagged one object and not another.
C10_SomeCachedSomeNot ==
    /\ pc = "sched"
    /\ Started = {}
    /\ \E i, j \in Objs : objects[i].local /\ ~objects[j].local

\* What the downloads do one after the other, each from os.Stat of the
\* directory to the last part, on disk f: the disk they leave, and whether
\* none of them failed.
RECURSIVE OneByOne(_, _, _)
OneByOne(f, objs, k) ==
    IF k > Len(objs) THEN [ok |-> TRUE, fs |-> f]
    ELSE IF objs[k].local THEN OneByOne(f, objs, k + 1)
    ELSE LET p == LocalPath(objs[k])
             d == MkdirAll(f, Dir(p))
             c == Create(d.fs, p)
         IN  IF d.err \/ c.err THEN [ok |-> FALSE, fs |-> f]
             ELSE OneByOne(Put(c.fs, p, FileNode(Complete(objs[k]))), objs, k + 1)

\* What the output loop prints from disk f, and whether it gets to the end.
RECURSIVE Printed(_, _, _)
Printed(f, objs, k) ==
    IF k > Len(objs) THEN [ok |-> TRUE, out |-> <<>>]
    ELSE LET p == LocalPath(objs[k])
             st == Stat(f, p, 0)
             gz == HasSuffix(p, <<".", "g", "z">>)
             cells == IF st.err = "" /\ ~st.isDir THEN f[p].data ELSE <<>>
         IN  IF st.err # "" \/ (gz /\ ~GzipHeaderOK(cells)) THEN [ok |-> FALSE, out |-> <<>>]
             ELSE LET r == Printed(f, objs, k + 1)
                  IN  [ok |-> r.ok, out |-> Lines(k, cells, gz) \o r.out]

\* C11: with concurrency 1 a task is started only when every task before it
\* has finished, and a successful run with any concurrency ends with the
\* local files and the standard output of the downloads done one by one.
C11_SerialAndSameResult ==
    /\ conc = 1 =>
          \A i, j \in DOMAIN tpc :
              i < j /\ tpc[j] # "none" => tpc[i] \in {"none", "ret", "done"}
    /\ conc >= 1 /\ pc = "exited" /\ status = 0 =>
          LET seq == OneByOne(prev.fs, objects, 1) IN
          seq.ok /\ Printed(seq.fs, objects, 1).ok =>
              /\ fs = seq.fs
              /\ stdout = Printed(seq.fs, objects, 1).out

\* C12: when the deadline passes while a listing request or a transfer is
\* outstanding, the output phase is not entered, and the run ends with
\* status 1 and with the error of the cancelled listing or download.
C12_DeadlineEndsRun ==
    hit =>
        /\ pc # "output"
        /\ stdout = <<>>
        /\ pc = "exited" =>
              /\ status = 1
              /\ errs # <<>>
              /\ \A k \in DOMAIN errs : errs[k][1] \in {"list", "download"}

\* The complete content of the objects from position k on, as the output
\* loop prints it.
RECURSIVE FullOutput(_, _)
FullOutput(objs, k) ==
    IF k > Len(objs) THEN <<>>
    ELSE [j \in 1..objs[k].size |->
             [pos |-> k, id |-> objs[k].id, part |-> j,
              gunzip |-> HasSuffix(LocalPath(objs[k]), <<".", "g", "z">>)]]
         \o FullOutput(objs, k + 1)

\* C13: a run that ends with status 0 has written the complete content of
\* every listed object to standard output: a failure of the output phase
\* ends the run with an error instead.
C13_StatusZeroAllPrinted ==
    pc = "exited" /\ status = 0 => stdout = FullOutput(objects, 1)

\* C14: a run that ends with a non-zero status has written exactly one
\* error line.
C14_OneErrorLine == pc = "exited" /\ status # 0 => Len(errs) = 1

\* The positions of the separators in s.
Slashes(s) == {j \in DOMAIN s : s[j] = "/"}

\* The least element of a non-empty set of numbers.
Least(S) == CHOOSE m \in S : \A j \in S : m <= j

\* C15: an argument that starts with "/" is split at its first "/" after
\* position 0: the bucket is what stands before it, the prefix all that
\* follows it, unchanged, and empty when there is no such "/"; any other
\* argument, the empty one too, is rejected with an error.
C15_SplitAtFirstSeparator ==
    pc # "parse" =>
        LET a == args[1]
            rest == Tail(a)
        IN  IF a = <<>> \/ a[1] # "/"
            THEN pc = "exited" /\ status = 1 /\ errs = << <<"parse", 0>> >>
            ELSE /\ pc = "list" /\ errs = <<>> /\ Len(inputs) = 1
                 /\ IF Slashes(rest) = {}
                    THEN inputs[1] = [bucket |-> rest, prefix |-> <<>>]
                    ELSE LET m == Least(Slashes(rest)) IN
                         inputs[1] = [bucket |-> SubSeq(rest, 1, m - 1),
                                      prefix |-> SubSeq(rest, m + 1, Len(rest))]

\* C15 witness: "/b/p/q" was parsed into the bucket "b" and the prefix "p/q".
C15_BucketAndPrefix ==
    /\ args = << <<"/", "b", "/", "p", "/", "q">> >>
    /\ pc = "list"
    /\ inputs = << [bucket |-> <<"b">>, prefix |-> <<"p", "/", "q">>] >>

\* An argument parseArg rejects.
Malformed(a) == a = <<>> \/ a[1] # "/"

\* C16: when one of the patterns is malformed, wherever it stands, the run
\* sends no listing request and starts no download, for no pattern: it
\* ends in parseArgs with an error.
C16_NothingBeforeParseError ==
    (\E k \in DOMAIN args : Malformed(args[k])) =>
        /\ pc \in {"parse", "exited"}
        /\ requests = 0
        /\ objects = <<>>
        /\ Started = {}
        /\ pc = "exited" => status = 1 /\ errs = << <<"parse", 0>> >>

\* C16 witness: the run ended on the malformed second pattern, its
\* well-formed first pattern unlisted.
C16_GoodThenBad ==
    /\ Len(args) = 2
    /\ ~Malformed(args[1])
    /\ Malformed(args[2])
    /\ pc = "exited"
    /\ requests = 0

\* C17: during the download phase the elements in dsem are as many as the
\* tasks admitted and not finished (the one main has sent for and not yet
\* started included), and when deg.Wait() returns dsem is empty.
C17_GateAccounting ==
    /\ pc \in {"sched", "go", "wait", "output"} =>
          dsem = Cardinality(InFlight) + (IF pc = "go" THEN 1 ELSE 0)
    /\ (pc = "wait" /\ WaitReturns) \/ pc = "output" => dsem = 0

\* C17 witness: deg.Wait() is about to return after a task that failed and
\* a task that succeeded.
C17_ReleasedEitherWay ==
    /\ pc = "wait"
    /\ WaitReturns
    /\ \E i, j \in Objs :
          /\ tpc[i] = "done" /\ terr[i] # ""
          /\ tpc[j] = "done" /\ terr[j] = ""

\* C18: two download tasks that are in flight at the same time never have
\* the same local path.
C18_OneTaskPerPath ==
    Alive =>
        \A i, j \in InFlight :
            i # j => LocalPath(objects[i]) # LocalPath(objects[j])

\* C19: the download loop is never stuck at the gate: when main has an
\* object to admit and no task holds an element of dsem, so that none will
\* ever be taken out, the send goes through.
C19_GateNeverStuck ==
    pc = "sched" /\ next <= N /\ ~objects[next].local /\ InFlight = {}
        => CanSend(dsem, conc)

\* Path p is a directory above path q.
Above(p, q) == HasPrefix(q, p \o <<"/">>)

\* C20: listed objects with different keys have different local paths,
\* none of them a directory above another, and when the download phase has
\* succeeded the local file of every downloaded object holds the content of
\* that object.
C20_PathsNeverConflict ==
    /\ \A i, j \in Objs :
          objects[i].bucket # objects[j].bucket \/ objects[i].key # objects[j].key =>
              /\ LocalPath(objects[i]) # LocalPath(objects[j])
              /\ ~Above(LocalPath(objects[i]), LocalPath(objects[j]))
    /\ pc = "output" =>
          \A i \in Objs :
              ~objects[i].local =>
                  /\ LocalPath(objects[i]) \in DOMAIN fs
                  /\ fs[LocalPath(objects[i])] = FileNode(Complete(objects[i]))
====
